---- MODULE Spec2Model ----
(***************************************************************************)
(* Model of the LDA filings analysis script (src/Untitled-2.py):           *)
(* fetch(client) paginates the filings endpoint over four period filters   *)
(* with a retry on HTTP 429, and main() projects the filings that carry an *)
(* income, ranks them, prints the top filings and writes them to           *)
(* top_filings.json.                                                       *)
(*                                                                         *)
(* JSON values: a string is [str |-> s], an array [items |-> seq], null is *)
(* None, an absent key is Missing.  Strings that the program only compares *)
(* or concatenates (URLs, names) are TLA+ strings; strings it parses or    *)
(* slices (income, dt_posted) are sequences of one-character strings.      *)
(*                                                                         *)
(* A float is the decimal number its source string denotes,                *)
(* [neg, num, exp] = (-1)^neg * num / 10^exp with no trailing fraction     *)
(* zero; neg tells -0.0 from 0.0.  Decimal strings of up to nine           *)
(* significant digits, the ones used here, denote distinct floats exactly  *)
(* when they denote distinct numbers, and compare as the numbers do.       *)
(*                                                                         *)
(* Of the standard output only the blocks of the report are kept           *)
(* (console); the progress lines of fetch are not.                         *)
(***************************************************************************)
EXTENDS Integers, Sequences, FiniteSets, TLC

VARIABLES
    family,    \* environment: the family of upstream data of this run
    server,    \* environment: server[c][q] is the page chain of client c,
               \* filter q, for the clients whose data has been drawn
    quota,     \* environment: transient 429 answers the server may still give
    pc,        \* position of the run
    ti,        \* main: index in TICKERS of the current ticker (0 before the loop)
    client,    \* main/fetch: the client name being fetched
    qi,        \* fetch: index in queries of the current params
    url,       \* fetch: the url of the next request
    params,    \* fetch: the params of the next request
    status,    \* fetch: r.status_code of the last response (0: none yet)
    slept,     \* fetch: parity of the number of time.sleep calls so far
    results,   \* fetch: the accumulated results
    filings,   \* main: the ranked records collected so far
    amounts,   \* main: the top distinct amounts
    top,       \* main: the selected records
    console,   \* the report blocks printed, one per selected record
    saved,     \* the records in top_filings.json as written by this run
    writes     \* number of times this run opened top_filings.json for writing

vars == <<family, server, quota, pc, ti, client, qi, url, params, status, slept,
          results, filings, amounts, top, console, saved, writes>>

(***************************************************************************)
(* Bounds of the model.                                                    *)
(***************************************************************************)
MaxPages   == 2      \* pages in one chain of the server
Max429     == 2      \* transient 429 answers of the server in one run
MaxPageLen == 2      \* filings on the first page drawn in the ranking family

(***************************************************************************)
(* CONFIG                                                                  *)
(***************************************************************************)
API_URL == "https://lda.senate.gov/api/v1/filings/"

TICKERS ==
    << "TCMD", "AORT", "PODD", "NEE", "AAPL", "ABT", "ADBE", "AMAT", "AMD", "AMZN",
       "AXON", "AXP", "AZO", "BLK", "BMI", "BRK.B", "BSX", "CAT", "CELH", "CMG",
       "CMCSA", "COP", "COST", "CRM", "CSX", "CTVA", "CVX", "CYBR", "DE", "ELF",
       "ELV", "EMR", "ETN", "EW", "EXLS", "FCFS", "FI", "FN", "FRPT", "GS",
       "GOOGL", "HD", "HLT", "HON", "HUBB", "ICE", "INST", "IQV", "JPM", "KO",
       "LLY", "LRCX", "LRN", "MA", "META", "MSFT", "NKE", "NVDA", "OLLI", "PANW",
       "PEP", "PG", "PH", "PYPL", "RTX", "SBUX", "SFM", "SHOP", "SHW", "SPGI",
       "STZ", "TJX", "TMO", "TXN", "UNH", "UNP", "VLTO", "ZTS", "CEQP", "DDOG",
       "ETRN", "LSXMK", "FWONK", "LINE", "BATRK" >>

CLIENTS ==
    ("TCMD" :> "Tactile Medical") @@ ("AORT" :> "Artivion") @@ ("PODD" :> "Insulet")
    @@ ("NEE" :> "NextEra Energy") @@ ("AAPL" :> "Apple") @@ ("ABT" :> "Abbott")
    @@ ("ADBE" :> "Adobe") @@ ("AMAT" :> "Applied Materials") @@ ("AMD" :> "Advanced Micro Devices")
    @@ ("AMZN" :> "Amazon") @@ ("AXON" :> "Axon") @@ ("AXP" :> "American Express")
    @@ ("AZO" :> "AutoZone") @@ ("BLK" :> "BlackRock") @@ ("BMI" :> "Badger Meter")
    @@ ("BRK.B" :> "Berkshire Hathaway") @@ ("BSX" :> "Boston Scientific") @@ ("CAT" :> "Caterpillar")
    @@ ("CELH" :> "Celsius Holdings") @@ ("CMG" :> "Chipotle") @@ ("CMCSA" :> "Comcast")
    @@ ("COP" :> "ConocoPhillips") @@ ("COST" :> "Costco") @@ ("CRM" :> "Salesforce")
    @@ ("CSX" :> "CSX") @@ ("CTVA" :> "Corteva") @@ ("CVX" :> "Chevron")
    @@ ("CYBR" :> "CyberArk") @@ ("DE" :> "Deere") @@ ("ELF" :> "e.l.f. Beauty")
    @@ ("ELV" :> "Elevance Health") @@ ("EMR" :> "Emerson") @@ ("ETN" :> "Eaton")
    @@ ("EW" :> "Edwards Lifesciences") @@ ("EXLS" :> "ExlService") @@ ("FCFS" :> "FirstCash")
    @@ ("FI" :> "Fiserv") @@ ("FN" :> "Fabrinet") @@ ("FRPT" :> "Freshpet")
    @@ ("GS" :> "Goldman Sachs") @@ ("GOOGL" :> "Google") @@ ("HD" :> "Home Depot")
    @@ ("HLT" :> "Hilton") @@ ("HON" :> "Honeywell") @@ ("HUBB" :> "Hubbell")
    @@ ("ICE" :> "Intercontinental Exchange") @@ ("INST" :> "Instructure") @@ ("IQV" :> "IQVIA")
    @@ ("JPM" :> "JPMorgan") @@ ("KO" :> "Coca-Cola") @@ ("LLY" :> "Eli Lilly")
    @@ ("LRCX" :> "Lam Research") @@ ("LRN" :> "Stride") @@ ("MA" :> "Mastercard")
    @@ ("META" :> "Meta") @@ ("MSFT" :> "Microsoft") @@ ("NKE" :> "Nike")
    @@ ("NVDA" :> "NVIDIA") @@ ("OLLI" :> "Ollie's") @@ ("PANW" :> "Palo Alto Networks")
    @@ ("PEP" :> "PepsiCo") @@ ("PG" :> "Procter & Gamble") @@ ("PH" :> "Parker Hannifin")
    @@ ("PYPL" :> "PayPal") @@ ("RTX" :> "RTX") @@ ("SBUX" :> "Starbucks")
    @@ ("SFM" :> "Sprouts Farmers Market") @@ ("SHOP" :> "Shopify") @@ ("SHW" :> "Sherwin-Williams")
    @@ ("SPGI" :> "S&P Global") @@ ("STZ" :> "Constellation Brands") @@ ("TJX" :> "TJX")
    @@ ("TMO" :> "Thermo Fisher") @@ ("TXN" :> "Texas Instruments") @@ ("UNH" :> "UnitedHealth")
    @@ ("UNP" :> "Union Pacific") @@ ("VLTO" :> "Veralto") @@ ("ZTS" :> "Zoetis")
    @@ ("CEQP" :> "Crestwood Equity") @@ ("DDOG" :> "Datadog") @@ ("ETRN" :> "Equitrans")
    @@ ("LSXMK" :> "Liberty Media") @@ ("FWONK" :> "Liberty Media") @@ ("LINE" :> "Lineage")
    @@ ("BATRK" :> "Liberty Media")

\* the client names of the tickers
ClientNames == {CLIENTS[TICKERS[i]] : i \in 1..Len(TICKERS)}

(***************************************************************************)
(* JSON values and Python helpers                                          *)
(***************************************************************************)
None    == [none |-> TRUE]
Missing == [missing |-> TRUE]

JStr(s) == [str |-> s]

JArr(seq) == [items |-> seq]

\* dict.get(key, default) on an object whose absent keys hold Missing
Get(obj, key, default) == IF obj[key] = Missing THEN default ELSE obj[key]

\* Python truthiness of a value that is None or a string
Truthy(v) == v # None /\ v # Missing /\ Len(v.str) > 0

Min(a, b) == IF a < b THEN a ELSE b

\* CLIENTS.get(ticker)
ClientsGet(t) == IF t \in DOMAIN CLIENTS THEN JStr(CLIENTS[t]) ELSE None

DigitStr == <<"0", "1", "2", "3", "4", "5", "6", "7", "8", "9">>

\* str(n) for a natural number n
RECURSIVE NatStr(_)
NatStr(n) ==
    IF n < 10 THEN DigitStr[n + 1] ELSE NatStr(n \div 10) \o DigitStr[(n % 10) + 1]

(***************************************************************************)
(* fetch: the four period filters                                          *)
(***************************************************************************)
queries(c) ==
    << [client_name |-> c, filing_year |-> 2023, filing_period |-> "fourth_quarter"],
       [client_name |-> c, filing_year |-> 2024, filing_period |-> "first_quarter"],
       [client_name |-> c, filing_year |-> 2024, filing_period |-> "second_quarter"],
       [client_name |-> c, filing_year |-> 2024, filing_period |-> "third_quarter"] >>

QueryIdx == 1..Len(queries(""))

(***************************************************************************)
(* The upstream API.  A chain is a sequence of pages                       *)
(* [status_code, results, next]: next = 0 is a null next pointer, next = k *)
(* the URL of page k of the same chain.  The URL the server hands out      *)
(* embeds the query, so it is requested with no parameters.  A client      *)
(* whose data is not in server has one empty page under every filter.      *)
(***************************************************************************)
NextUrl(c, q, k) ==
    API_URL \o "?client_name=" \o c
            \o "&filing_period=" \o queries(c)[q].filing_period
            \o "&filing_year=" \o NatStr(queries(c)[q].filing_year)
            \o "&page=" \o NatStr(k)

EmptyPage == [status_code |-> 200, results |-> <<>>, next |-> 0]

NotFound == [status_code |-> 404, results |-> <<>>, next |-> 0]

\* the pages the server holds for filter q of client c
Chain(c, q) == IF c \in DOMAIN server THEN server[c][q] ELSE <<EmptyPage>>

PageKeys == {<<c, q, k>> : c \in DOMAIN server, q \in QueryIdx, k \in 1..(MaxPages + 1)}

NoPage == <<"", 0, 0>>

\* the page a request addresses: the first page of the filter named by the
\* params on the endpoint, the page named by a URL the server handed out
PageOf(u, p) ==
    IF u = JStr(API_URL)
    THEN IF p # None /\ \E q \in QueryIdx : queries(p.client_name)[q] = p
         THEN <<p.client_name, CHOOSE q \in QueryIdx : queries(p.client_name)[q] = p, 1>>
         ELSE NoPage
    ELSE IF \E key \in PageKeys : NextUrl(key[1], key[2], key[3]) = u.str
         THEN CHOOSE key \in PageKeys : NextUrl(key[1], key[2], key[3]) = u.str
         ELSE NoPage

\* what the server holds for a request (before any rate limiting)
ServerPage(u, p) ==
    LET key == PageOf(u, p) IN
    IF key = NoPage THEN (IF u = JStr(API_URL) THEN EmptyPage ELSE NotFound)
    ELSE IF key[3] > Len(Chain(key[1], key[2])) THEN NotFound
    ELSE Chain(key[1], key[2])[key[3]]

\* requests.get(url, params=params): r.status_code and r.json()
Respond(u, p) ==
    LET key == PageOf(u, p)
        pg  == ServerPage(u, p) IN
    [status_code |-> pg.status_code,
     data |-> [results |-> JArr(pg.results),
               next |-> IF pg.next = 0 \/ key = NoPage THEN None
                        ELSE JStr(NextUrl(key[1], key[2], pg.next))]]

(***************************************************************************)
(* float(s) on a string over Chars.  Python strips surrounding whitespace, *)
(* takes an optional sign, then digits with at most one decimal point and  *)
(* at least one digit; anything else raises ValueError.  (Exponents,       *)
(* underscores, "inf" and "nan" need characters outside Chars.)            *)
(***************************************************************************)
Digits == {"0", "1", "2", "3", "4", "5", "6", "7", "8", "9"}

Chars == Digits \cup {"+", "-", ".", " ", "a", "b", "c"}

DigitVal(ch) ==
    CASE ch = "0" -> 0 [] ch = "1" -> 1 [] ch = "2" -> 2 [] ch = "3" -> 3
      [] ch = "4" -> 4 [] ch = "5" -> 5 [] ch = "6" -> 6 [] ch = "7" -> 7
      [] ch = "8" -> 8 [] ch = "9" -> 9

RECURSIVE LStrip(_)
LStrip(s) == IF s # <<>> /\ Head(s) = " " THEN LStrip(Tail(s)) ELSE s

RECURSIVE RStrip(_)
RStrip(s) ==
    IF s # <<>> /\ s[Len(s)] = " " THEN RStrip(SubSeq(s, 1, Len(s) - 1)) ELSE s

Strip(s) == RStrip(LStrip(s))

\* the float num / 10^exp, without trailing zeros in the fraction
RECURSIVE Float(_, _)
Float(num, exp) ==
    IF exp > 0 /\ num % 10 = 0 THEN Float(num \div 10, exp - 1)
    ELSE [neg |-> FALSE, num |-> num, exp |-> exp]

\* -x
Negated(x) == [x EXCEPT !.neg = ~x.neg]

ValueError == [ok |-> FALSE, val |-> Float(0, 0)]

\* the digits of s read as a decimal integer, acc the value read so far
RECURSIVE IntOf(_, _)
IntOf(s, acc) == IF s = <<>> THEN acc ELSE IntOf(Tail(s), 10 * acc + DigitVal(Head(s)))

AllDigits(s) == \A i \in 1..Len(s) : s[i] \in Digits

\* the unsigned part: digits [ "." [digits] ] or "." digits
ParseUnsigned(s) ==
    LET dots == {i \in 1..Len(s) : s[i] = "."} IN
    IF dots = {}
    THEN IF s # <<>> /\ AllDigits(s) THEN [ok |-> TRUE, val |-> Float(IntOf(s, 0), 0)]
         ELSE ValueError
    ELSE LET d    == CHOOSE i \in dots : \A j \in dots : i <= j
             ip   == SubSeq(s, 1, d - 1)
             fp   == SubSeq(s, d + 1, Len(s)) IN
         IF AllDigits(ip) /\ AllDigits(fp) /\ Len(ip) + Len(fp) > 0
         THEN [ok |-> TRUE, val |-> Float(IntOf(ip \o fp, 0), Len(fp))]
         ELSE ValueError

ParseFloat(str) ==
    LET s == Strip(str) IN
    IF s = <<>> THEN ValueError
    ELSE IF Head(s) = "-"
         THEN LET r == ParseUnsigned(Tail(s)) IN
              [ok |-> r.ok, val |-> IF r.ok THEN Negated(r.val) ELSE r.val]
    ELSE IF Head(s) = "+" THEN ParseUnsigned(Tail(s))
    ELSE ParseUnsigned(s)

(***************************************************************************)
(* Comparison and formatting of floats                                     *)
(***************************************************************************)
RECURSIVE Pow10(_)
Pow10(n) == IF n = 0 THEN 1 ELSE 10 * Pow10(n - 1)

Signed(x) == IF x.neg THEN 0 - x.num ELSE x.num

\* x < y
Less(x, y) == Signed(x) * Pow10(y.exp) < Signed(y) * Pow10(x.exp)

\* x == y (so that -0.0 == 0.0)
FloatEq(x, y) == Signed(x) * Pow10(y.exp) = Signed(y) * Pow10(x.exp)

\* |x| rounded to an integer, a tie going to the even neighbour
RoundHalfEven(x) ==
    LET p == Pow10(x.exp)
        q == x.num \div p
        r == x.num % p IN
    IF 2 * r > p THEN q + 1
    ELSE IF 2 * r = p THEN q + (q % 2)
    ELSE q

Pad3(n) ==
    DigitStr[(n \div 100) + 1] \o DigitStr[((n \div 10) % 10) + 1] \o DigitStr[(n % 10) + 1]

\* the digits of n in groups of three
RECURSIVE Grouped(_)
Grouped(n) ==
    IF n < 1000 THEN NatStr(n) ELSE Grouped(n \div 1000) \o "," \o Pad3(n % 1000)

\* f"{x:,.0f}"
Money(x) == (IF x.neg THEN "-" ELSE "") \o Grouped(RoundHalfEven(x))

(***************************************************************************)
(* main: the projection of a filing to a ranked record                     *)
(***************************************************************************)
\* [l["name"] for l in f.get("lobbyists", []) if l.get("name")]
RECURSIVE LobbyistNames(_)
LobbyistNames(ls) ==
    IF ls = <<>> THEN <<>>
    ELSE LET nm == Get(Head(ls), "name", None) IN
         (IF Truthy(nm) THEN <<nm.str>> ELSE <<>>) \o LobbyistNames(Tail(ls))

\* s[:n]
Prefix(s, n) == SubSeq(s, 1, Min(n, Len(s)))

DateLen == 10

\* mutant: the record keeps only the lobbyists that the console shows
ProjectCapped(ticker, c, f) ==
    [ticker    |-> ticker,
     client    |-> c,
     firm      |-> Get(Get(f, "registrant", [name |-> Missing]), "name", JStr("?")),
     amount    |-> ParseFloat(f.income.str).val,
     date      |-> Prefix(Get(f, "dt_posted", JStr(<<>>)).str, DateLen),
     lobbyists |-> Prefix(LobbyistNames(Get(f, "lobbyists", JArr(<<>>)).items), 5)]

Project(ticker, c, f) ==
    [ticker    |-> ticker,
     client    |-> c,
     firm      |-> Get(Get(f, "registrant", [name |-> Missing]), "name", JStr("?")),
     amount    |-> ParseFloat(f.income.str).val,
     date      |-> Prefix(Get(f, "dt_posted", JStr(<<>>)).str, DateLen),
     lobbyists |-> LobbyistNames(Get(f, "lobbyists", JArr(<<>>)).items)]

\* some entry of the lobbyist list is null
NullEntry(ls) == \E i \in 1..Len(ls) : ls[i] = None

\* what the body of "for f in fetch(client)" does with f.  The entries of the
\* dict literal are evaluated in order: firm (None.get raises AttributeError
\* on a null registrant), amount (float() raises ValueError, which is caught),
\* date (None[:10] raises TypeError), lobbyists (iterating None raises
\* TypeError, None.get raises AttributeError on a null entry)
Body(f) ==
    IF ~Truthy(Get(f, "income", None)) THEN "skip"
    ELSE IF Get(f, "registrant", [name |-> Missing]) = None THEN "raise"
    ELSE IF ~ParseFloat(f.income.str).ok THEN "skip"
    ELSE IF Get(f, "dt_posted", JStr(<<>>)) = None THEN "raise"
    ELSE IF Get(f, "lobbyists", JArr(<<>>)) = None THEN "raise"
    ELSE IF NullEntry(Get(f, "lobbyists", JArr(<<>>)).items) THEN "raise"
    ELSE "append"

\* the loop over fs dies of an exception that "except ValueError" lets through
Raises(fs) == \E i \in 1..Len(fs) : Body(fs[i]) = "raise"

\* the records the loop over fs appends, up to the filing at which it dies
RECURSIVE Kept(_, _, _)
Kept(ticker, c, fs) ==
    IF fs = <<>> THEN <<>>
    ELSE LET b == Body(Head(fs)) IN
         IF b = "raise" THEN <<>>
         ELSE (IF b = "append" THEN <<Project(ticker, c, Head(fs))>> ELSE <<>>)
                 \o Kept(ticker, c, Tail(fs))

(***************************************************************************)
(* main: ranking and report                                                *)
(***************************************************************************)
Range(seq) == {seq[i] : i \in 1..Len(seq)}

\* x placed after every element whose amount is at least its own
RECURSIVE InsertDesc(_, _)
InsertDesc(sorted, x) ==
    IF sorted = <<>> THEN <<x>>
    ELSE IF ~Less(Head(sorted).amount, x.amount)
         THEN <<Head(sorted)>> \o InsertDesc(Tail(sorted), x)
         ELSE <<x>> \o sorted

\* filings.sort(key=lambda x: x["amount"], reverse=True): stable, descending
RECURSIVE SortFilings(_)
SortFilings(fs) ==
    IF fs = <<>> THEN <<>>
    ELSE InsertDesc(SortFilings(SubSeq(fs, 1, Len(fs) - 1)), fs[Len(fs)])

\* set(xs): the elements of xs without those equal to an earlier one
RECURSIVE SetOf(_)
SetOf(xs) ==
    IF xs = <<>> THEN {}
    ELSE LET init == SetOf(SubSeq(xs, 1, Len(xs) - 1)) IN
         IF \E y \in init : FloatEq(y, xs[Len(xs)]) THEN init
         ELSE init \cup {xs[Len(xs)]}

\* sorted(S, reverse=True)
RECURSIVE SortedDesc(_)
SortedDesc(S) ==
    IF S = {} THEN <<>>
    ELSE LET m == CHOOSE a \in S : \A b \in S : ~Less(a, b) IN
         <<m>> \o SortedDesc(S \ {m})

TopN == 3

\* mutant: the amounts of the first three records
TopAmountsOfFirstThree(fs) ==
    LET firsts == Prefix(fs, TopN) IN [i \in 1..Len(firsts) |-> firsts[i].amount]

\* sorted(set(f["amount"] for f in filings), reverse=True)[:3]
TopAmounts(fs) ==
    Prefix(SortedDesc(SetOf([i \in 1..Len(fs) |-> fs[i].amount])), TopN)

\* f["amount"] in amounts
InAmounts(f, am) == \E i \in 1..Len(am) : FloatEq(f.amount, am[i])

\* mutant: a record equal to an earlier one is left out
RECURSIVE Dedup(_)
Dedup(fs) ==
    IF fs = <<>> THEN <<>>
    ELSE LET init == SubSeq(fs, 1, Len(fs) - 1) IN
         Dedup(init) \o (IF fs[Len(fs)] \in Range(init) THEN <<>> ELSE <<fs[Len(fs)]>>)

SelectTopDistinct(fs, am) == Dedup(SelectSeq(fs, LAMBDA f : InAmounts(f, am)))

\* [f for f in filings if f["amount"] in amounts]
SelectTop(fs, am) == SelectSeq(fs, LAMBDA f : InAmounts(f, am))

\* ', '.join(names)
RECURSIVE Join(_)
Join(names) ==
    IF names = <<>> THEN ""
    ELSE IF Len(names) = 1 THEN names[1]
    ELSE names[1] \o ", " \o Join(Tail(names))

DisplayCap == 5

\* ', '.join(f['lobbyists'][:5]) or 'N/A'
LobbyistLine(f) ==
    LET joined == Join(Prefix(f.lobbyists, DisplayCap)) IN
    IF joined = "" THEN "N/A" ELSE joined

\* the block printed for the i-th selected record
ReportLine(i, f) ==
    [index |-> i, amount |-> "$" \o Money(f.amount),
     client |-> f.client, ticker |-> f.ticker, firm |-> f.firm,
     lobbyists |-> LobbyistLine(f), date |-> f.date]

(***************************************************************************)
(* The filings the upstream API holds in this model.                       *)
(***************************************************************************)
Filing(income, registrant, dt_posted, lobbyists) ==
    [income |-> income, registrant |-> registrant,
     dt_posted |-> dt_posted, lobbyists |-> lobbyists]

Firm(n) == [name |-> JStr(n)]

Lobbyist(n) == [name |-> JStr(n)]

\* "1000000", seven lobbyist entries of which six are named
FilingA ==
    Filing(JStr(<<"1", "0", "0", "0", "0", "0", "0">>),
           Firm("Firm A"),
           JStr(<<"2", "0", "2", "4", "-", "0", "1", "-", "1", "5", "T", "0", "9", ":", "3", "0">>),
           JArr(<<Lobbyist("Ann"), [name |-> Missing], Lobbyist("Bob"), Lobbyist("Cy"),
                  Lobbyist("Dee"), Lobbyist("Eve"), Lobbyist("Fay")>>))

\* "500000", no registrant, no date, no lobbyists key
FilingB ==
    Filing(JStr(<<"5", "0", "0", "0", "0", "0">>),
           Missing,
           Missing,
           Missing)

\* "250.5", a registrant without a name, a short date, an empty lobbyist list
FilingC ==
    Filing(JStr(<<"2", "5", "0", ".", "5">>),
           [name |-> Missing],
           JStr(<<"2", "0", "2", "4", "-", "0", "4">>),
           JArr(<<>>))

\* "7", lobbyist entries whose name is null or empty
FilingD ==
    Filing(JStr(<<"7">>),
           Firm("Firm B"),
           JStr(<<"2", "0", "2", "4", "-", "0", "7", "-", "1", "9">>),
           JArr(<<Lobbyist("Gus"), [name |-> None], [name |-> JStr("")]>>))

\* "1000000" again, from another firm
FilingE ==
    Filing(JStr(<<"1", "0", "0", "0", "0", "0", "0">>),
           Firm("Firm C"),
           JStr(<<"2", "0", "2", "3", "-", "1", "1", "-", "0", "2", "T", "1", "7", ":", "4", "5">>),
           JArr(<<Lobbyist("Hal")>>))

FilingNull ==
    Filing(None,
           Firm("Firm N"),
           JStr(<<"2", "0", "2", "4", "-", "0", "2", "-", "0", "1">>),
           JArr(<<Lobbyist("Ivy")>>))

FilingAbc ==
    Filing(JStr(<<"a", "b", "c">>),
           Firm("Firm X"),
           JStr(<<"2", "0", "2", "4", "-", "0", "2", "-", "0", "2">>),
           JArr(<<Lobbyist("Jo")>>))

FilingNeg ==
    Filing(JStr(<<"-", "5">>),
           Firm("Firm M"),
           JStr(<<"2", "0", "2", "4", "-", "0", "2", "-", "0", "3">>),
           JArr(<<>>))

FilingZero ==
    Filing(JStr(<<"0">>),
           Firm("Firm Z"),
           JStr(<<"2", "0", "2", "4", "-", "0", "2", "-", "0", "4">>),
           JArr(<<>>))

FilingNegZero ==
    Filing(JStr(<<"-", "0">>),
           Firm("Firm O"),
           JStr(<<"2", "0", "2", "4", "-", "0", "2", "-", "0", "5">>),
           JArr(<<>>))

\* incomes at the edges of what float() takes
FilingAbsent ==
    Filing(Missing,
           Firm("Firm P"),
           Missing,
           JArr(<<>>))

FilingEmpty ==
    Filing(JStr(<<>>),
           Firm("Firm Q"),
           Missing,
           JArr(<<>>))

FilingPadded ==
    Filing(JStr(<<" ", "7", " ">>),
           Firm("Firm R"),
           Missing,
           JArr(<<>>))

FilingPlus ==
    Filing(JStr(<<"+", ".", "5">>),
           Firm("Firm S"),
           Missing,
           JArr(<<>>))

FilingDots ==
    Filing(JStr(<<"1", ".", "2", ".", "3">>),
           Firm("Firm T"),
           Missing,
           JArr(<<>>))

FilingSign ==
    Filing(JStr(<<"-">>),
           Firm("Firm U"),
           Missing,
           JArr(<<>>))

FilingBlank ==
    Filing(JStr(<<" ">>),
           Firm("Firm V"),
           Missing,
           JArr(<<>>))

FilingPoint ==
    Filing(JStr(<<"5", ".">>),
           Firm("Firm W"),
           Missing,
           JArr(<<>>))

FilingInner ==
    Filing(JStr(<<"1", " ", "0">>),
           Firm("Firm Y"),
           Missing,
           JArr(<<>>))

FilingMilli ==
    Filing(JStr(<<"1", ".", "2", "3", "9">>),
           Firm("Firm K"),
           Missing,
           JArr(<<>>))

\* filings with null fields
FilingNullAll ==
    Filing(None, None, None, None)

FilingAbcNullDate ==
    Filing(JStr(<<"a", "b", "c">>),
           Firm("Firm G"),
           None,
           None)

FilingAbcNullReg ==
    Filing(JStr(<<"a", "b", "c">>),
           None,
           JStr(<<"2", "0", "2", "4", "-", "0", "3", "-", "0", "1">>),
           JArr(<<>>))

FilingNullReg ==
    Filing(JStr(<<"9">>),
           None,
           JStr(<<"2", "0", "2", "4", "-", "0", "3", "-", "0", "2">>),
           JArr(<<>>))

FilingNullDate ==
    Filing(JStr(<<"9">>),
           Firm("Firm H"),
           None,
           JArr(<<>>))

FilingNullLobbyists ==
    Filing(JStr(<<"9">>),
           Firm("Firm I"),
           JStr(<<"2", "0", "2", "4", "-", "0", "3", "-", "0", "4">>),
           None)

FilingNullLobbyist ==
    Filing(JStr(<<"9">>),
           Firm("Firm J"),
           JStr(<<"2", "0", "2", "4", "-", "0", "3", "-", "0", "5">>),
           JArr(<<Lobbyist("Kim"), None>>))

\* the filings at which the loop of main() dies
Fatal == {FilingAbcNullReg, FilingNullReg, FilingNullDate, FilingNullLobbyists,
          FilingNullLobbyist}

(***************************************************************************)
(* The data the upstream API may hold.  Three clients have data: the       *)
(* client of ETRN, the client of LSXMK, FWONK and BATRK, and the client of *)
(* LINE; the data of a client is drawn when it is first fetched and stays  *)
(* the same for the rest of the run.                                       *)
(***************************************************************************)
Page(st, res, nx) == [status_code |-> st, results |-> res, next |-> nx]

PlainClient == CLIENTS["ETRN"]

TripleClient == CLIENTS["LSXMK"]

RichClient == CLIENTS["LINE"]

Served == {PlainClient, TripleClient, RichClient}

AllEmpty == [q \in QueryIdx |-> <<EmptyPage>>]

\* one chain under filter q0, an empty page under the others
Only(q0, chain) == [q \in QueryIdx |-> IF q = q0 THEN chain ELSE <<EmptyPage>>]

\* family "pages": a filter of RichClient holds any chain of ChainsP and the
\* filter after it an empty page or a page of one filing; a filter of
\* PlainClient holds a page of filings or a failure; the last filter of
\* TripleClient holds a page of one filing, followed or not by a filing of
\* Fatal and another filing
ResP ==
    { <<>>,
      <<FilingA, FilingAbsent, FilingEmpty, FilingPadded, FilingNull>>,
      <<FilingB, FilingPlus, FilingDots, FilingSign, FilingBlank, FilingPoint,
        FilingInner, FilingMilli, FilingAbc, FilingNullAll, FilingAbcNullDate>> }

FailStatuses == {404, 500}

Terminals ==
    {Page(200, r, 0) : r \in ResP} \cup {Page(st, <<>>, 0) : st \in FailStatuses}

\* the chains of pages k..n, each page but the last pointing to the next
RECURSIVE ChainsFrom(_, _)
ChainsFrom(k, n) ==
    IF k = n THEN {<<t>> : t \in Terminals}
    ELSE {<<Page(200, r, k + 1)>> \o rest : r \in ResP, rest \in ChainsFrom(k + 1, n)}

ChainsP == UNION {ChainsFrom(1, n) : n \in 1..MaxPages}

RichP ==
    { [q \in QueryIdx |->
          IF q = q1 THEN ch1
          ELSE IF q = (q1 % Cardinality(QueryIdx)) + 1 THEN <<t2>>
          ELSE <<EmptyPage>>] :
      q1 \in QueryIdx, ch1 \in ChainsP, t2 \in {EmptyPage, Page(200, <<FilingC>>, 0)} }

SecondPages == {Page(200, r, 0) : r \in ResP} \cup {Page(500, <<>>, 0)}

PlainP == {Only(3, <<t>>) : t \in SecondPages}

TripleP ==
    {Only(4, <<Page(200, <<FilingE>>, 0)>>)}
        \cup {Only(4, <<Page(200, <<FilingE, bad, FilingD>>, 0)>>) : bad \in Fatal}

\* family "rank": the first filter of RichClient holds a page of any filings
\* of RankPool, followed or not by a second page, its second filter the
\* same filings again or nothing, and its last filter fails
RankPool == {FilingA, FilingB, FilingC, FilingNeg, FilingZero, FilingNegZero}

SeqsUpTo(S, n) == UNION {[1..k -> S] : k \in 0..n}

RichR ==
    { [q \in QueryIdx |->
          IF q = 1 THEN (IF more = <<>> THEN <<Page(200, xs, 0)>>
                         ELSE <<Page(200, xs, 2), Page(200, more, 0)>>)
          ELSE IF q = 2 /\ again THEN <<Page(200, xs, 0)>>
          ELSE IF q = 4 THEN <<Page(500, <<>>, 0)>>
          ELSE <<EmptyPage>>] :
      xs \in SeqsUpTo(RankPool, MaxPageLen),
      more \in {<<>>, <<FilingD, FilingB>>},
      again \in BOOLEAN }

PlainR ==
    { Only(3, <<Page(200, zs, 0)>>) :
      zs \in {<<>>, <<FilingA, FilingB>>, <<FilingC>>, <<FilingZero>>} }

TripleR ==
    {AllEmpty, Only(1, <<Page(200, <<FilingE>>, 0)>>),
     Only(1, <<Page(200, <<FilingE, FilingNullDate>>, 0)>>)}

\* family "live": a filter of RichClient holds a chain that may end in a
\* page that always answers 429 or in an empty page whose next pointer is
\* its own URL, or two empty pages that point to each other
LiveTerminals(k) ==
    {Page(200, <<FilingB>>, 0), Page(500, <<>>, 0), Page(429, <<>>, 0), Page(200, <<>>, k)}

TwoCycle == <<Page(200, <<>>, 2), Page(200, <<>>, 1)>>

RECURSIVE LiveChainsFrom(_, _)
LiveChainsFrom(k, n) ==
    IF k = n THEN {<<t>> : t \in LiveTerminals(k)}
    ELSE {<<Page(200, <<FilingA>>, k + 1)>> \o rest : rest \in LiveChainsFrom(k + 1, n)}

ChainsLive == UNION {LiveChainsFrom(1, n) : n \in 1..MaxPages} \cup {TwoCycle}

RichL == {Only(q, ch) : q \in QueryIdx, ch \in ChainsLive}

PlainL == {Only(1, <<Page(200, <<FilingB>>, 0)>>)}

TripleL == {AllEmpty, Only(1, <<Page(200, <<FilingNullLobbyists>>, 0)>>)}

\* the data client c may hold in this run
Offer(c) ==
    CASE family = "pages" ->
           (IF c = RichClient THEN RichP ELSE IF c = PlainClient THEN PlainP ELSE TripleP)
      [] family = "rank" ->
           (IF c = RichClient THEN RichR ELSE IF c = PlainClient THEN PlainR ELSE TripleR)
      [] family = "live" ->
           (IF c = RichClient THEN RichL ELSE IF c = PlainClient THEN PlainL ELSE TripleL)

\* the server once client c is fetched
Drawn(c) ==
    IF c \in Served /\ c \notin DOMAIN server
    THEN {(c :> data) @@ server : data \in Offer(c)}
    ELSE {server}

(***************************************************************************)
(* fetch(client)                                                           *)
(***************************************************************************)
TooManyRequests == [status_code |-> 429, data |-> [results |-> JArr(<<>>), next |-> None]]

\* the answers the server may give to the request (u, p): what it holds for
\* it, or a transient 429 while its quota of them lasts
Answers(u, p) ==
    {Respond(u, p)} \cup (IF quota > 0 THEN {TooManyRequests} ELSE {})

\* leaving the while loop: the next params of "for params in queries", or
\* the return of fetch
LeaveWhile ==
    IF qi < Len(queries(client))
    THEN /\ qi' = qi + 1
         /\ url' = JStr(API_URL)
         /\ params' = queries(client)[qi + 1]
         /\ pc' = "fetch"
    ELSE /\ pc' = "collect"
         /\ UNCHANGED <<qi, url, params>>

\* mutant: a 429 leaves the while loop like any other failure
RateLimitedBreaks ==
    /\ pc = "fetch"
    /\ \E r \in Answers(url, params) :
          /\ r.status_code = 429
          /\ status' = r.status_code
          /\ quota' = IF r = Respond(url, params) THEN quota ELSE quota - 1
    /\ slept' = 1 - slept
    /\ LeaveWhile
    /\ UNCHANGED <<family, server, ti, client, results,
                   filings, amounts, top, console, saved, writes>>

\* r.status_code == 429: print, sleep and continue with the same url and params
RateLimited ==
    /\ pc = "fetch"
    /\ \E r \in Answers(url, params) :
          /\ r.status_code = 429
          /\ status' = r.status_code
          /\ quota' = IF r = Respond(url, params) THEN quota ELSE quota - 1
    /\ slept' = 1 - slept
    /\ UNCHANGED <<family, server, pc, ti, client, qi, url, params, results,
                   filings, amounts, top, console, saved, writes>>

\* mutant: a failure returns from fetch instead of leaving the while loop
FailedReturns ==
    /\ pc = "fetch"
    /\ \E r \in Answers(url, params) :
          /\ r.status_code # 429
          /\ r.status_code # 200
          /\ status' = r.status_code
    /\ pc' = "collect"
    /\ UNCHANGED <<family, server, ti, client, qi, url, params, quota, slept, results,
                   filings, amounts, top, console, saved, writes>>

\* r.status_code != 200: break
Failed ==
    /\ pc = "fetch"
    /\ \E r \in Answers(url, params) :
          /\ r.status_code # 429
          /\ r.status_code # 200
          /\ status' = r.status_code
    /\ LeaveWhile
    /\ UNCHANGED <<family, server, ti, client, quota, slept, results,
                   filings, amounts, top, console, saved, writes>>

\* mutant: the params are kept for the request of the next page
SuccessKeepsParams ==
    /\ pc = "fetch"
    /\ \E r \in Answers(url, params) :
          /\ r.status_code = 200
          /\ status' = r.status_code
          /\ results' = results \o Get(r.data, "results", JArr(<<>>)).items
          /\ LET next == Get(r.data, "next", None) IN
             IF Truthy(next)
             THEN /\ url' = next
                  /\ UNCHANGED <<pc, qi, params>>
             ELSE LeaveWhile
    /\ slept' = 1 - slept
    /\ UNCHANGED <<family, server, ti, client, quota,
                   filings, amounts, top, console, saved, writes>>

\* results.extend(data.get("results", [])); url, params = data.get("next"), None;
\* sleep; then "while url"
Success ==
    /\ pc = "fetch"
    /\ \E r \in Answers(url, params) :
          /\ r.status_code = 200
          /\ status' = r.status_code
          /\ results' = results \o Get(r.data, "results", JArr(<<>>)).items
          /\ LET next == Get(r.data, "next", None) IN
             IF Truthy(next)
             THEN /\ url' = next
                  /\ params' = None
                  /\ UNCHANGED <<pc, qi>>
             ELSE LeaveWhile
    /\ slept' = 1 - slept
    /\ UNCHANGED <<family, server, ti, client, quota,
                   filings, amounts, top, console, saved, writes>>

\* requests.get raises: no answer has arrived, nothing handles the exception
\* and the run ends
RequestFault ==
    /\ pc = "fetch"
    /\ pc' = "crashed"
    /\ UNCHANGED <<family, server, ti, client, qi, url, params, status, quota, slept,
                   results, filings, amounts, top, console, saved, writes>>

\* r.json() raises: the request has been answered 200 (the tests of 429 and of
\* != 200 have been passed) with a body that is not JSON; nothing handles the
\* exception and the run ends before anything is appended
JsonFault ==
    /\ pc = "fetch"
    /\ \E r \in Answers(url, params) :
          /\ r.status_code = 200
          /\ status' = r.status_code
    /\ pc' = "crashed"
    /\ UNCHANGED <<family, server, ti, client, qi, url, params, quota, slept,
                   results, filings, amounts, top, console, saved, writes>>

(***************************************************************************)
(* main()                                                                  *)
(***************************************************************************)
\* for ticker in TICKERS: client = CLIENTS.get(ticker); ... fetch(client)
StartFetch ==
    /\ pc = "main"
    /\ ti < Len(TICKERS)
    /\ ti' = ti + 1
    /\ LET c == ClientsGet(TICKERS[ti + 1]) IN
       IF ~Truthy(c)
       THEN UNCHANGED <<server, pc, client, qi, url, params, status, results>>
       ELSE /\ server' \in Drawn(c.str)
            /\ client' = c.str
            /\ results' = <<>>
            /\ qi' = 1
            /\ url' = JStr(API_URL)
            /\ params' = queries(c.str)[1]
            /\ status' = 0
            /\ pc' = "fetch"
    /\ UNCHANGED <<family, quota, slept, filings, amounts, top, console, saved, writes>>

\* mutant: the file is rewritten after every entity
CollectSaves ==
    /\ pc = "collect"
    /\ ~Raises(results)
    /\ filings' = filings \o Kept(TICKERS[ti], client, results)
    /\ saved' = filings'
    /\ writes' = writes + 1
    /\ pc' = "main"
    /\ UNCHANGED <<family, server, ti, client, qi, url, params, status, quota, slept,
                   results, amounts, top, console>>

\* for f in fetch(client): if f.get("income"): try: filings.append(...)
Collect ==
    /\ pc = "collect"
    /\ ~Raises(results)
    /\ filings' = filings \o Kept(TICKERS[ti], client, results)
    /\ pc' = "main"
    /\ UNCHANGED <<family, server, ti, client, qi, url, params, status, quota, slept,
                   results, amounts, top, console, saved, writes>>

\* the same loop when a filing raises AttributeError or TypeError: the records
\* before that filing have been appended, nothing handles the exception and
\* the run ends
CollectFault ==
    /\ pc = "collect"
    /\ Raises(results)
    /\ filings' = filings \o Kept(TICKERS[ti], client, results)
    /\ pc' = "crashed"
    /\ UNCHANGED <<family, server, ti, client, qi, url, params, status, quota, slept,
                   results, amounts, top, console, saved, writes>>

\* filings.sort(...); amounts = ...; top = ...
Rank ==
    /\ pc = "main"
    /\ ti = Len(TICKERS)
    /\ filings' = SortFilings(filings)
    /\ amounts' = TopAmounts(filings')
    /\ top' = SelectTop(filings', amounts')
    /\ pc' = "report"
    /\ UNCHANGED <<family, server, ti, client, qi, url, params, status, quota, slept,
                   results, console, saved, writes>>

\* for i, f in enumerate(top, 1): print(...)
Report ==
    /\ pc = "report"
    /\ console' = [i \in 1..Len(top) |-> ReportLine(i, top[i])]
    /\ pc' = "save"
    /\ UNCHANGED <<family, server, ti, client, qi, url, params, status, quota, slept,
                   results, filings, amounts, top, saved, writes>>

\* with open("top_filings.json", "w") as out: json.dump(top, out, indent=2)
Save ==
    /\ pc = "save"
    /\ saved' = top
    /\ writes' = writes + 1
    /\ pc' = "done"
    /\ UNCHANGED <<family, server, ti, client, qi, url, params, status, quota, slept,
                   results, filings, amounts, top, console>>

\* open or json.dump raises OSError: nothing handles it, the run ends.  When
\* open raises, the file is not touched; when the write raises, the file has
\* been truncated and holds the records written until then
SaveFault ==
    /\ pc = "save"
    /\ pc' = "crashed"
    /\ \/ UNCHANGED <<saved, writes>>
       \/ /\ writes' = writes + 1
          /\ \E k \in 0..Len(top) : saved' = Prefix(top, k)
    /\ UNCHANGED <<family, server, ti, client, qi, url, params, status, quota, slept,
                   results, filings, amounts, top, console>>

Next ==
    \/ StartFetch
    \/ RateLimited
    \/ Failed
    \/ Success
    \/ RequestFault
    \/ JsonFault
    \/ Collect
    \/ CollectFault
    \/ Rank
    \/ Report
    \/ Save
    \/ SaveFault

InitRun ==
    /\ server = [c \in {} |-> AllEmpty]
    /\ pc = "main"
    /\ ti = 0
    /\ client = ""
    /\ qi = 0
    /\ url = None
    /\ params = None
    /\ status = 0
    /\ slept = 0
    /\ results = <<>>
    /\ filings = <<>>
    /\ amounts = <<>>
    /\ top = <<>>
    /\ console = <<>>
    /\ saved = <<>>
    /\ writes = 0

Init ==
    /\ family = "pages"
    /\ quota = Max429
    /\ InitRun

Spec == Init /\ [][Next]_vars

InitRank ==
    /\ family = "rank"
    /\ quota = 1
    /\ InitRun

SpecRank == InitRank /\ [][Next]_vars

\* one transient 429 is enough here: for the run to end it matters only that
\* the transient answers are finitely many
InitLive ==
    /\ family = "live"
    /\ quota = 1
    /\ InitRun

\* the run is sequential and blocks only in requests and sleeps, which return
LiveSpec == InitLive /\ [][Next]_vars /\ WF_vars(Next)

(***************************************************************************)
(* Reference definitions for the properties, read off the server's pages.  *)
(***************************************************************************)
\* the records of filter q of client c from page k on, following the next
\* pointers while pages answer 200 (no transient 429)
RECURSIVE Walk(_, _, _, _)
Walk(c, q, k, fuel) ==
    IF fuel = 0 \/ k > Len(Chain(c, q)) THEN <<>>
    ELSE LET pg == Chain(c, q)[k] IN
         IF pg.status_code # 200 THEN <<>>
         ELSE pg.results \o (IF pg.next = 0 THEN <<>> ELSE Walk(c, q, pg.next, fuel - 1))

\* whether that walk comes to an end
RECURSIVE Ends(_, _, _, _)
Ends(c, q, k, fuel) ==
    IF fuel = 0 THEN FALSE
    ELSE IF k > Len(Chain(c, q)) THEN TRUE
    ELSE LET pg == Chain(c, q)[k] IN
         IF pg.status_code = 429 THEN FALSE
         ELSE IF pg.status_code # 200 \/ pg.next = 0 THEN TRUE
         ELSE Ends(c, q, pg.next, fuel - 1)

Fuel == MaxPages + 1

RECURSIVE ExpectedFrom(_, _)
ExpectedFrom(c, q) ==
    IF q > Len(queries(c)) THEN <<>> ELSE Walk(c, q, 1, Fuel) \o ExpectedFrom(c, q + 1)

\* what fetch(c) returns when the server never answers a transient 429
Expected(c) == ExpectedFrom(c, 1)

\* the records main() has kept once the first n tickers are done
RECURSIVE KeptUpTo(_)
KeptUpTo(n) ==
    IF n = 0 THEN <<>>
    ELSE KeptUpTo(n - 1) \o Kept(TICKERS[n], CLIENTS[TICKERS[n]], Expected(CLIENTS[TICKERS[n]]))

AllKept == KeptUpTo(Len(TICKERS))

\* every page the server holds for client c answers 200
AllOk(c) ==
    \A q \in QueryIdx : \A k \in 1..Len(Chain(c, q)) : Chain(c, q)[k].status_code = 200

\* the first page of the chain without a next pointer
LastPage(c, q) ==
    CHOOSE k \in 1..Len(Chain(c, q)) :
        /\ Chain(c, q)[k].next = 0
        /\ \A j \in 1..(k - 1) : Chain(c, q)[j].next # 0

RECURSIVE PagesConcat(_, _, _)
PagesConcat(c, q, k) ==
    IF k > LastPage(c, q) THEN <<>>
    ELSE Chain(c, q)[k].results \o PagesConcat(c, q, k + 1)

RECURSIVE AllPagesFrom(_, _)
AllPagesFrom(c, q) ==
    IF q > Len(queries(c)) THEN <<>> ELSE PagesConcat(c, q, 1) \o AllPagesFrom(c, q + 1)

\* a step in which the run dies of an unhandled fault, whether or not the
\* request has been answered
FaultStep == pc' = "crashed"

(***************************************************************************)
(* C1: a request answered 429 is issued again unchanged (same url, same    *)
(* params), nothing is appended and the filter does not advance; an answer *)
(* other than 429 is never followed by the same request; and what fetch    *)
(* returns equals what it returns when the server answers no 429.          *)
(***************************************************************************)
C1_RetryOn429 ==
    /\ [][(pc = "fetch" /\ status' = 429 /\ ~FaultStep) =>
             /\ pc' = "fetch"
             /\ <<qi, url, params>>' = <<qi, url, params>>
             /\ results' = results]_vars
    /\ [][(pc = "fetch" /\ status' # 429 /\ ~FaultStep) =>
             \/ pc' = "collect"
             \/ <<qi, url, params>>' # <<qi, url, params>>]_vars
    /\ [](pc = "collect" => results = Expected(client))

\* a second 429 in a row has just been answered on a later page
C1_Witness ==
    /\ pc = "fetch"
    /\ status = 429
    /\ quota = 0
    /\ params = None
    /\ results # <<>>

(***************************************************************************)
(* C2: a status that is neither 429 nor 200 ends the pagination of the     *)
(* current filter only: the records accumulated so far stay, the run does  *)
(* not fault, the next filter starts at its first page (or fetch returns   *)
(* after the last filter), and main() goes on to collect every entity.     *)
(***************************************************************************)
C2_FailureStopsFilterOnly ==
    /\ [][(pc = "fetch" /\ status' \notin {200, 429} /\ ~FaultStep) =>
             /\ results' = results
             /\ filings' = filings
             /\ IF qi < Len(queries(client))
                THEN /\ pc' = "fetch"
                     /\ qi' = qi + 1
                     /\ url' = JStr(API_URL)
                     /\ params' = queries(client)[qi + 1]
                ELSE pc' = "collect"]_vars
    /\ [](pc = "main" => filings = KeptUpTo(ti))

\* an entity failed on page 2 of a filter after a page of records, and
\* records of that entity and of the one after it have been collected
C2_Witness ==
    /\ pc = "main"
    /\ ti = Len(TICKERS)
    /\ \E q \in QueryIdx :
          /\ Len(Chain(RichClient, q)) = 2
          /\ Chain(RichClient, q)[1].results # <<>>
          /\ Chain(RichClient, q)[2].status_code = 500
    /\ \E i, j \in 1..Len(filings) :
          /\ filings[i].ticker = "LINE"
          /\ filings[j].ticker = "BATRK"

(***************************************************************************)
(* C3: every request is either the endpoint with the parameters of the     *)
(* current filter or a next URL handed out by the server with no           *)
(* parameters; and when every page answers 200, fetch returns the results  *)
(* of all pages of the four filters up to the page without a next pointer, *)
(* concatenated in filter and page order.                                  *)
(***************************************************************************)
RequestShape ==
    \/ /\ url = JStr(API_URL)
       /\ params = queries(client)[qi]
    \/ /\ params = None
       /\ \E k \in 1..Len(Chain(client, qi)) :
             /\ Chain(client, qi)[k].status_code = 200
             /\ Chain(client, qi)[k].next # 0
             /\ url = JStr(NextUrl(client, qi, Chain(client, qi)[k].next))

C3_AllPagesInOrder ==
    /\ pc = "fetch" => RequestShape
    /\ (pc = "collect" /\ AllOk(client)) => results = AllPagesFrom(client, 1)

\* fetch has returned the pages of a two-page filter and of another filter
C3_Witness ==
    /\ pc = "collect"
    /\ AllOk(client)
    /\ \E q1, q2 \in QueryIdx :
          /\ q1 # q2
          /\ Len(Chain(client, q1)) = 2
          /\ Chain(client, q1)[1].results # <<>>
          /\ Chain(client, q1)[2].results # <<>>
          /\ Chain(client, q1)[1].results # Chain(client, q1)[2].results
          /\ Chain(client, q2)[1].results # <<>>

(***************************************************************************)
(* C9: top_filings.json is opened for writing at most once, in the step    *)
(* after the report of a run that has fetched and collected every ticker;  *)
(* before that step, and in a run that dies in a fetch or while collecting *)
(* its result, the run has not touched it.                                 *)
(***************************************************************************)
C9_WrittenOnceAtEnd ==
    /\ [](writes <= 1 /\ (writes = 0 => saved = <<>>))
    /\ [][writes' # writes =>
             /\ pc = "save"
             /\ ti = Len(TICKERS)
             /\ Len(filings) = Len(AllKept)]_vars
    /\ [][(pc \in {"fetch", "collect"} /\ pc' = "crashed")
             => (writes' = 0 /\ saved' = <<>>)]_vars

\* the run is over and has written records
C9_Witness == pc = "done" /\ writes = 1 /\ saved # <<>>

(***************************************************************************)
(* Reference definitions for the properties of the ranking.                *)
(***************************************************************************)
\* the number a float stands for: -0.0 and 0.0 are one number
Number(x) == IF x.num = 0 THEN Float(0, 0) ELSE x

\* the numbers of S that have fewer than TopN numbers of S above them
HighestDistinct(S) == {a \in S : Cardinality({b \in S : Less(a, b)}) < TopN}

\* the records of kept whose amount is one of the TopN highest numbers
TopOf(kept) ==
    LET highest == HighestDistinct({Number(r.amount) : r \in kept}) IN
    {r \in kept : Number(r.amount) \in highest}

Count(seq, x) == Cardinality({i \in 1..Len(seq) : seq[i] = x})

\* s reads as a decimal number: spaces around an optional sign followed by
\* digits with at most one point and at least one digit
IsNumeric(s) ==
    LET ns == {i \in 1..Len(s) : s[i] # " "} IN
    /\ ns # {}
    /\ LET lo   == CHOOSE i \in ns : \A j \in ns : i <= j
           hi   == CHOOSE i \in ns : \A j \in ns : j <= i
           from == IF s[lo] \in {"+", "-"} THEN lo + 1 ELSE lo IN
       /\ \A i \in from..hi : s[i] \in Digits \cup {"."}
       /\ Cardinality({i \in from..hi : s[i] = "."}) <= 1
       /\ \E i \in from..hi : s[i] \in Digits

HasNumericIncome(f) ==
    /\ f.income # Missing
    /\ f.income # None
    /\ IsNumeric(f.income.str)

\* the firm name under which a filing is reported; a filing whose registrant
\* is null is never reported
FirmOf(f) ==
    IF f.registrant = None THEN None
    ELSE IF f.registrant = Missing \/ f.registrant.name = Missing THEN JStr("?")
    ELSE f.registrant.name

\* the registrant, the date and the lobbyists of f can be projected: none of
\* them is null and no lobbyist entry is null
WellFormed(f) ==
    /\ f.registrant # None
    /\ f.dt_posted # None
    /\ f.lobbyists # None
    /\ f.lobbyists # Missing => \A i \in 1..Len(f.lobbyists.items) : f.lobbyists.items[i] # None

\* every filing the server returns for the tickers of the run
Fetched == UNION {Range(Expected(c)) : c \in ClientNames}

\* the names of the named lobbyists of a filing, in source order
NamedOf(f) ==
    LET ls    == IF f.lobbyists \in {Missing, None} THEN <<>> ELSE f.lobbyists.items
        named == {i \in 1..Len(ls) :
                    /\ ls[i] # None
                    /\ ls[i].name # Missing
                    /\ ls[i].name # None
                    /\ ls[i].name.str # ""}
        nth(j) == CHOOSE i \in named : Cardinality({k \in named : k < i}) = j - 1 IN
    [j \in 1..Cardinality(named) |-> ls[nth(j)].name.str]

\* the console form of a list of names: the first five, comma separated
Shown(names) ==
    LET n == Len(names) IN
    CASE n = 0 -> "N/A"
      [] n = 1 -> names[1]
      [] n = 2 -> names[1] \o ", " \o names[2]
      [] n = 3 -> names[1] \o ", " \o names[2] \o ", " \o names[3]
      [] n = 4 -> names[1] \o ", " \o names[2] \o ", " \o names[3] \o ", " \o names[4]
      [] OTHER -> names[1] \o ", " \o names[2] \o ", " \o names[3] \o ", " \o names[4]
                  \o ", " \o names[5]

(***************************************************************************)
(* C4: the records selected and written are exactly the kept records whose *)
(* amount is one of the three highest distinct amounts (all of them when   *)
(* there are fewer), ties included; 1000000 and 500000 for one entity and  *)
(* 1000000 for another give three records.                                 *)
(***************************************************************************)
C4_TopThreeWithTies ==
    pc \in {"report", "save", "done"} =>
        LET kept    == AllKept
            topKept == TopOf(Range(kept)) IN
        /\ Range(top) = topKept
        /\ pc = "done" => Range(saved) = topKept
        /\ (pc = "done"
              /\ [i \in 1..Len(kept) |-> <<kept[i].ticker, kept[i].amount>>]
                   = << <<"ETRN", Float(1000000, 0)>>, <<"ETRN", Float(500000, 0)>>,
                        <<"LINE", Float(1000000, 0)>> >>)
             => Len(saved) = 3

\* four records are written, two of them tied, and a kept record is left out
C4_Witness ==
    /\ pc = "done"
    /\ Len(saved) > TopN
    /\ Cardinality({saved[i].amount : i \in 1..Len(saved)}) = TopN
    /\ \E r \in Range(AllKept) : r \notin Range(saved)

(***************************************************************************)
(* C5: a filing whose income is absent, null or not numeric is dropped     *)
(* without an error and without effect on any other record: when every     *)
(* filing with a numeric income among the results of a fetch can be        *)
(* projected, collecting them does not fault and appends the projection of *)
(* exactly the filings with a numeric income, in order, leaving the        *)
(* records collected before untouched; and no written record stems from a  *)
(* filing whose income is absent, null or not numeric.                     *)
(***************************************************************************)
C5_UnparseableDropped ==
    /\ [][(pc = "collect"
              /\ \A i \in 1..Len(results) :
                    HasNumericIncome(results[i]) => WellFormed(results[i])) =>
             LET good == SelectSeq(results, HasNumericIncome) IN
             /\ pc' = "main"
             /\ Len(filings') = Len(filings) + Len(good)
             /\ \A j \in 1..Len(filings) : filings'[j] = filings[j]
             /\ \A j \in 1..Len(good) :
                   filings'[Len(filings) + j] = Project(TICKERS[ti], client, good[j])]_vars
    /\ [](\A i \in 1..Len(saved) :
             saved[i].firm \notin {FirmOf(f) : f \in {g \in Fetched : ~HasNumericIncome(g)}})

(***************************************************************************)
(* C6: the amount of every ranked record and of every written record is    *)
(* non-negative.                                                           *)
(***************************************************************************)
C6_NonNegativeAmounts ==
    /\ \A i \in 1..Len(filings) : Signed(filings[i].amount) >= 0
    /\ \A i \in 1..Len(saved) : Signed(saved[i].amount) >= 0

(***************************************************************************)
(* C7: no two elements of the written array are equal in all of ticker,    *)
(* client, firm, amount, date and lobbyists.                               *)
(***************************************************************************)
C7_DistinctRecords ==
    \A i, j \in 1..Len(saved) : i # j => saved[i] # saved[j]

(***************************************************************************)
(* C7 as amended: nothing is deduplicated.  Every element of the written   *)
(* array occurs in it as many times as the fetches returned a filing with  *)
(* these six fields for that ticker.                                       *)
(***************************************************************************)
C7_NoDeduplication ==
    pc = "done" =>
        LET kept == AllKept IN \A r \in Range(saved) : Count(saved, r) = Count(kept, r)

\* the written array holds the same record twice
C7_Witness ==
    /\ pc = "done"
    /\ \E i, j \in 1..Len(saved) : i # j /\ saved[i] = saved[j]

(***************************************************************************)
(* C8: for every selected record the console shows the first five named    *)
(* lobbyists of the source filing ("N/A" when there is none) and the       *)
(* written record holds all of them, in source order; entries without a    *)
(* name are in neither.                                                    *)
(***************************************************************************)
C8_LobbyistCapOnConsoleOnly ==
    pc \in {"save", "done"} =>
        /\ Len(console) = Len(top)
        /\ \A i \in 1..Len(top) :
              \E f \in Range(Expected(top[i].client)) :
                 /\ FirmOf(f) = top[i].firm
                 /\ console[i].lobbyists = Shown(NamedOf(f))
                 /\ top[i].lobbyists = NamedOf(f)
                 /\ pc = "done" => saved[i].lobbyists = NamedOf(f)

\* a written record holds six lobbyists, the console shows five of them,
\* and another record shows N/A
C8_Witness ==
    /\ pc = "done"
    /\ \E i, j \in 1..Len(saved) :
          /\ Len(saved[i].lobbyists) > DisplayCap
          /\ console[i].lobbyists = "Ann, Bob, Cy, Dee, Eve"
          /\ saved[j].lobbyists = <<>>
          /\ console[j].lobbyists = "N/A"

(***************************************************************************)
(* C10: when no request is answered 429 for ever and every chain of next   *)
(* pointers ends, the run writes the file unless a fault ends it; the      *)
(* retry loop has no bound, so from a request whose page always answers    *)
(* 429 or whose next pointers cycle the run never leaves the fetch (short  *)
(* of a fault) and the file is never written.                              *)
(***************************************************************************)
\* every chain of the data drawn so far ends
WellBehaved == \A c \in DOMAIN server : \A q \in QueryIdx : Ends(c, q, 1, Fuel)

\* the pagination of the current filter cannot end from the next request on
Doomed ==
    /\ pc = "fetch"
    /\ LET key == PageOf(url, params) IN
       key # NoPage /\ ~Ends(key[1], key[2], key[3], Fuel)

C10_Termination ==
    /\ <>(writes = 1 \/ pc = "crashed" \/ ~WellBehaved)
    /\ [][~WellBehaved => writes' = 0]_vars
    /\ [][Doomed => (writes' = 0 /\ (Doomed' \/ pc' = "crashed"))]_vars

\* the run is retrying a page that always answers 429
C10_Witness ==
    /\ Doomed
    /\ status = 429
    /\ quota = 0
    /\ ServerPage(url, params).status_code = 429

====
